---------------------------- MODULE Spec2Model ----------------------------
(***************************************************************************)
(* libtempest: the serde codec of WeatherFlow/Tempest JSON packets.        *)
(*                                                                         *)
(* The library is a set of type declarations (src/src/lib.rs) from which   *)
(* serde derives the decoder (Deserialize, read with serde_json::from_str) *)
(* and the encoder (Serialize, written with serde_json::to_string).  The   *)
(* model gives the declarations as schema tables and the derived code as   *)
(* operators over them.                                                    *)
(*                                                                         *)
(* Numbers.  The integer widths of the declarations go up to 64 bits, so   *)
(* a number is kept symbolically as [neg, hi, d, f]: its magnitude is      *)
(* 2^hi + d + f/100 when hi > 0 and d + f/100 when hi = 0, with d small    *)
(* (|d| <= MaxSmall < 2^8) and f hundredths (f > 0 only when hi = 0).      *)
(* 255 is [hi 8, d -1], 256 is [hi 8, d 0], 2^32 is [hi 32, d 0].          *)
(***************************************************************************)
EXTENDS Integers, Sequences, FiniteSets, TLC

VARIABLES input, pc, wire, rec, out, rec2

vars == <<input, pc, wire, rec, out, rec2>>

---------------------------------------------------------------------------
(* Bounds of the model. *)

\* the small literals d of a number range over 0..MaxSmall
MaxSmall == 3
\* a batched packet carries 0..MaxObs observations
MaxObs == 2
\* the auxiliary arrays fs / mqtt_stats carry 0..MaxAux elements
MaxAux == 2

---------------------------------------------------------------------------
(* Numbers *)

Num(neg, hi, d, f) == [neg |-> neg, hi |-> hi, d |-> d, f |-> f]
N(n) == Num(FALSE, 0, n, 0)
Pow2(w, d) == Num(FALSE, w, d, 0)
Neg(n) == [n EXCEPT !.neg = TRUE]

\* magnitude < 2^w   and   magnitude <= 2^w   (w >= 8)
LtPow2(n, w) == n.hi < w \/ (n.hi = w /\ n.d < 0)
LePow2(n, w) == n.hi < w \/ (n.hi = w /\ n.d <= 0 /\ n.f = 0)

\* significand bits of f32, and the binary exponent at which f32 overflows
F32_MANTISSA_DIGITS == 24
F32_MAX_EXP == 128

\* `v as f32`: the cast serde's f32 visitor applies to whatever number the
\* text holds (visit_u64 / visit_i64 / visit_f64).  Magnitudes from 2^128 - 1
\* up round to infinity; 2^hi + d with hi > 24 and |d| small rounds to 2^hi;
\* the small values are kept (as the nearest f32).
AsF32(n) ==
  IF n.hi >= F32_MAX_EXP
    THEN [cls |-> "inf", neg |-> n.neg, hi |-> 0, d |-> 0, f |-> 0]
    ELSE IF n.hi > F32_MANTISSA_DIGITS
      THEN [cls |-> "fin", neg |-> n.neg, hi |-> n.hi, d |-> 0, f |-> 0]
      ELSE [cls |-> "fin", neg |-> n.neg, hi |-> n.hi, d |-> n.d, f |-> n.f]

---------------------------------------------------------------------------
(* JSON text, as the value it spells.  [t |-> "bad"] is text that is not   *)
(* JSON at all.  An object is the sequence of its <<key, value>> members   *)
(* in the order written (a key may repeat).                                *)

JNull == [t |-> "null"]
JBool(b) == [t |-> "bool", b |-> b]
JInt(n) == [t |-> "int", n |-> n]
JFloat(n) == [t |-> "float", n |-> n]
JStr(s) == [t |-> "str", s |-> s]
JArr(a) == [t |-> "arr", a |-> a]
JObj(m) == [t |-> "obj", m |-> m]
JBad == [t |-> "bad"]
\* text that ends in the middle of a value
JEof == [t |-> "eof"]

---------------------------------------------------------------------------
(* Results and errors.  An error is what serde_json::Error lets a caller   *)
(* see: its category (Error::classify) and the message, which is fixed by  *)
(* the serde::de::Error constructor that built it (code) and that          *)
(* constructor's argument (arg).                                           *)

Ok(v) == [ok |-> TRUE, v |-> v]
Err(cat, code, arg) == [ok |-> FALSE, err |-> [cat |-> cat, code |-> code, arg |-> arg]]
DataErr(code, arg) == Err("Data", code, arg)

---------------------------------------------------------------------------
(* The declarations: each struct is the sequence of its <<field, type>>    *)
(* pairs in declaration order.                                             *)

EvtPrecip == << <<"serial_number", "String">>, <<"hub_sn", "String">>,
                <<"evt", "EvtPrecipEvt">> >>

EvtStrike == << <<"serial_number", "String">>, <<"hub_sn", "String">>,
                <<"evt", "EvtStrikeEvt">> >>

RapidWind == << <<"serial_number", "String">>, <<"hub_sn", "String">>,
                <<"ob", "RapidWindOb">> >>

ObsAir == << <<"serial_number", "String">>, <<"hub_sn", "String">>,
             <<"obs", "Vec<ObsAirObs>">>, <<"firmware_revision", "u8">> >>

ObsSky == << <<"serial_number", "String">>, <<"hub_sn", "String">>,
             <<"obs", "Vec<ObsSkyObs>">>, <<"firmware_revision", "u8">> >>

ObsSt == << <<"serial_number", "String">>, <<"hub_sn", "String">>,
            <<"obs", "Vec<ObsStObs>">>, <<"firmware_revision", "u32">> >>

DeviceStatus == << <<"serial_number", "String">>, <<"hub_sn", "String">>,
                   <<"timestamp", "u64">>, <<"uptime", "u32">>,
                   <<"voltage", "f32">>, <<"firmware_revision", "u32">>,
                   <<"rssi", "i32">>, <<"hub_rssi", "i32">>,
                   <<"sensor_status", "u32">>, <<"debug", "u32">> >>

HubStatus == << <<"serial_number", "String">>, <<"firmware_revision", "String">>,
                <<"uptime", "u32">>, <<"rssi", "i32">>, <<"timestamp", "u64">>,
                <<"reset_flags", "String">>, <<"seq", "u32">>,
                <<"fs", "Vec<u32>">>, <<"radio_stats", "RadioStats">>,
                <<"mqtt_stats", "Vec<u32>">> >>

EvtPrecipEvt == << <<"epoch", "u64">> >>

\* (mutant) the two u16 slots declared in the other order
EvtStrikeEvtSwapped ==
  << <<"epoch", "u64">>, <<"energy", "u16">>, <<"distance", "u16">> >>

EvtStrikeEvt == << <<"epoch", "u64">>, <<"distance", "u16">>, <<"energy", "u16">> >>

RapidWindOb == << <<"epoch", "u64">>, <<"wind_speed", "f32">>,
                  <<"wind_direction", "u32">> >>

ObsAirObs == << <<"epoch", "u64">>, <<"station_pressure", "f32">>,
                <<"air_temperature", "f32">>, <<"relative_humidity", "u32">>,
                <<"lightning_strike_count", "u32">>,
                <<"lightning_strike_avg_distance", "u32">>,
                <<"battery", "f32">>, <<"report_interval", "u32">> >>

ObsSkyObs == << <<"epoch", "u64">>, <<"illuminance", "u32">>, <<"uv", "u32">>,
                <<"rain_minute", "f32">>, <<"wind_lull_min3", "f32">>,
                <<"wind_avg", "f32">>, <<"wind_gust_max3", "f32">>,
                <<"wind_direction", "u32">>, <<"battery", "f32">>,
                <<"report_interval", "u32">>, <<"solar_radiation", "u32">>,
                <<"rain_day", "Option<u32>">>, <<"precipitation_type", "u8">>,
                <<"wind_sample_interval", "u32">> >>

ObsStObs == << <<"epoch", "u64">>, <<"wind_lull_min3", "f32">>,
               <<"wind_avg", "f32">>, <<"wind_gust_max3", "f32">>,
               <<"wind_direction", "u32">>, <<"wind_sample_interval", "u32">>,
               <<"station_pressure", "f32">>, <<"air_temperature", "f32">>,
               <<"relative_humidity", "f32">>, <<"illuminance", "u32">>,
               <<"uv", "f32">>, <<"solar_radiation", "u32">>,
               <<"rain_minute", "f32">>, <<"precipitation_type", "u8">>,
               <<"lightning_strike_dist", "u32">>,
               <<"lightning_strike_count", "u32">>,
               <<"battery", "f32">>, <<"report_interval", "u32">> >>

RadioStats == << <<"version", "u32">>, <<"reboots", "u32">>,
                 <<"i2c_errors", "u32">>, <<"radio_status", "u8">>,
                 <<"network_id", "u32">> >>

\* enum Tempest: the variants in declaration order; each is a newtype
\* variant holding the struct of the same name
Tempest == << "EvtPrecip", "EvtStrike", "RapidWind", "ObsAir", "ObsSky",
              "ObsSt", "DeviceStatus", "HubStatus" >>

\* #[serde(tag = "type", rename_all = "snake_case")]: the tag a variant is
\* written and recognised by
SnakeCase(variant) ==
  CASE variant = "EvtPrecip" -> "evt_precip"
    [] variant = "EvtStrike" -> "evt_strike"
    [] variant = "RapidWind" -> "rapid_wind"
    [] variant = "ObsAir" -> "obs_air"
    [] variant = "ObsSky" -> "obs_sky"
    [] variant = "ObsSt" -> "obs_st"
    [] variant = "DeviceStatus" -> "device_status"
    [] variant = "HubStatus" -> "hub_status"

StructNames == { "EvtPrecip", "EvtStrike", "RapidWind", "ObsAir", "ObsSky",
                 "ObsSt", "DeviceStatus", "HubStatus", "EvtPrecipEvt",
                 "EvtStrikeEvt", "RapidWindOb", "ObsAirObs", "ObsSkyObs",
                 "ObsStObs", "RadioStats" }

Fields(T) ==
  CASE T = "EvtPrecip" -> EvtPrecip
    [] T = "EvtStrike" -> EvtStrike
    [] T = "RapidWind" -> RapidWind
    [] T = "ObsAir" -> ObsAir
    [] T = "ObsSky" -> ObsSky
    [] T = "ObsSt" -> ObsSt
    [] T = "DeviceStatus" -> DeviceStatus
    [] T = "HubStatus" -> HubStatus
    [] T = "EvtPrecipEvt" -> EvtPrecipEvt
    [] T = "EvtStrikeEvt" -> EvtStrikeEvt
    [] T = "RapidWindOb" -> RapidWindOb
    [] T = "ObsAirObs" -> ObsAirObs
    [] T = "ObsSkyObs" -> ObsSkyObs
    [] T = "ObsStObs" -> ObsStObs
    [] T = "RadioStats" -> RadioStats

FieldNames(T) == { Fields(T)[i][1] : i \in 1..Len(Fields(T)) }
FieldIndex(T, name) == CHOOSE i \in 1..Len(Fields(T)) : Fields(T)[i][1] = name
FieldType(T, name) == Fields(T)[FieldIndex(T, name)][2]

IsVec(T) == T \in { "Vec<u32>", "Vec<ObsAirObs>", "Vec<ObsSkyObs>", "Vec<ObsStObs>" }
ElemType(T) ==
  CASE T = "Vec<u32>" -> "u32"
    [] T = "Vec<ObsAirObs>" -> "ObsAirObs"
    [] T = "Vec<ObsSkyObs>" -> "ObsSkyObs"
    [] T = "Vec<ObsStObs>" -> "ObsStObs"

IsUnsigned(T) == T \in { "u8", "u16", "u32", "u64" }
Bits(T) ==
  CASE T = "u8" -> 8
    [] T = "u16" -> 16
    [] T = "u32" -> 32
    [] T = "u64" -> 64
    [] T = "i32" -> 32

---------------------------------------------------------------------------
(* Decoding.  `Tempest` is internally tagged, so serde first buffers the   *)
(* whole packet as a Content tree and the structs are then read from that  *)
(* tree (ContentDeserializer), never from the text directly.               *)

\* The Content a JSON value is buffered as.  serde_json reads an integer
\* literal as U64 when it is non-negative and below 2^64, as I64 when it is
\* negative and not below -2^63, and as F64 otherwise.
ContentOf(j) ==
  CASE j.t = "int" ->
         IF ~j.n.neg /\ LtPow2(j.n, 64) THEN "U64"
         ELSE IF j.n.neg /\ LePow2(j.n, 63) THEN "I64"
         ELSE "F64"
    [] j.t = "float" -> "F64"
    [] j.t = "str" -> "String"
    [] j.t = "bool" -> "Bool"
    [] j.t = "null" -> "Unit"
    [] j.t = "arr" -> "Seq"
    [] j.t = "obj" -> "Map"

\* String::deserialize
DeserializeString(j) ==
  IF ContentOf(j) = "String" THEN Ok(j.s)
  ELSE DataErr("invalid_type", "a string")

\* (mutant) no range check: the value is taken as it is
FitsIntUnchecked(T, n) ==
  TRUE

\* the range check of the integer visitors (visit_u64 / visit_i64 of u8,
\* u16, u32, u64 and i32)
FitsInt(T, n) ==
  IF IsUnsigned(T) THEN ~n.neg /\ LtPow2(n, Bits(T))
  ELSE IF n.neg THEN LePow2(n, Bits(T) - 1) ELSE LtPow2(n, Bits(T) - 1)

\* (mutant) a string is taken for a number as well
DeserializeIntLenient(T, j) ==
  IF ContentOf(j) \in {"U64", "I64"}
    THEN IF FitsInt(T, j.n) THEN Ok(j.n) ELSE DataErr("invalid_value", T)
    ELSE IF ContentOf(j) = "String" THEN Ok(N(0))
    ELSE DataErr("invalid_type", T)

\* u8 / u16 / u32 / u64 / i32 ::deserialize
DeserializeInt(T, j) ==
  IF ContentOf(j) \in {"U64", "I64"}
    THEN IF FitsInt(T, j.n) THEN Ok(j.n) ELSE DataErr("invalid_value", T)
    ELSE DataErr("invalid_type", T)

\* f32::deserialize: any number is taken and cast
DeserializeF32(j) ==
  IF ContentOf(j) \in {"U64", "I64", "F64"} THEN Ok(AsF32(j.n))
  ELSE DataErr("invalid_type", "f32")

None == [some |-> FALSE, val |-> N(0)]
Some(n) == [some |-> TRUE, val |-> n]

\* (mutant) null is read as the number 0
DeserializeOptionSentinel(j) ==
  IF ContentOf(j) = "Unit" THEN Ok(Some(N(0)))
  ELSE LET r == DeserializeInt("u32", j) IN
       IF r.ok THEN Ok(Some(r.v)) ELSE r

\* Option<u32>::deserialize: null is None, anything else is read as u32
DeserializeOption(j) ==
  IF ContentOf(j) = "Unit" THEN Ok(None)
  ELSE LET r == DeserializeInt("u32", j) IN
       IF r.ok THEN Ok(Some(r.v)) ELSE r

Has(acc, name) == \E i \in 1..Len(acc) : acc[i][1] = name
Get(acc, name) == acc[CHOOSE i \in 1..Len(acc) : acc[i][1] = name][2]

\* the struct value built from the fields read
MkStruct(T, acc) == [name \in FieldNames(T) |-> Get(acc, name)]

\* derived visit_seq, a slot the array does not have (next_element is None)
SeqMissingElement(T, i, acc) ==
  DataErr("invalid_length", T)

\* (mutant) the elements left over are dropped
SeqEndTruncating(T, a, acc) ==
  Ok(MkStruct(T, acc))

\* SeqDeserializer::end after the derived visit_seq: elements left over
SeqEnd(T, a, acc) ==
  IF Len(a) > Len(Fields(T)) THEN DataErr("invalid_length", "in sequence")
  ELSE Ok(MkStruct(T, acc))

\* derived visit_map, after the last member: a field never seen is an error
\* unless it is an Option, which is None (serde's missing_field helper)
MapEnd(T, acc) ==
  LET missing == { i \in 1..Len(Fields(T)) :
                     /\ ~Has(acc, Fields(T)[i][1])
                     /\ Fields(T)[i][2] # "Option<u32>" }
      first == CHOOSE i \in missing : \A k \in missing : i <= k
  IN IF missing # {} THEN DataErr("missing_field", Fields(T)[first][1])
     ELSE Ok([name \in FieldNames(T) |->
                IF Has(acc, name) THEN Get(acc, name) ELSE None])

\* (mutant) the element is put in front
VecPushFront(acc, x) ==
  <<x>> \o acc

\* VecVisitor::visit_seq: values.push(value)
VecPush(acc, x) ==
  Append(acc, x)

RECURSIVE Deserialize(_, _)
RECURSIVE VisitSeq(_, _, _, _)
RECURSIVE VisitMap(_, _, _, _)
RECURSIVE VecElements(_, _, _, _)

\* derived Visitor::visit_seq of struct T over the array a, from slot i on
VisitSeq(T, a, i, acc) ==
  IF i > Len(Fields(T)) THEN SeqEnd(T, a, acc)
  ELSE IF i > Len(a) THEN SeqMissingElement(T, i, acc)
  ELSE LET r == Deserialize(Fields(T)[i][2], a[i]) IN
       IF r.ok THEN VisitSeq(T, a, i + 1, Append(acc, <<Fields(T)[i][1], r.v>>))
       ELSE r

\* derived Visitor::visit_map of struct T over the members m, from the i-th on
VisitMap(T, m, i, acc) ==
  IF i > Len(m) THEN MapEnd(T, acc)
  ELSE LET k == m[i][1] IN
       IF k \notin FieldNames(T) THEN VisitMap(T, m, i + 1, acc)
       ELSE IF Has(acc, k) THEN DataErr("duplicate_field", k)
       ELSE LET r == Deserialize(FieldType(T, k), m[i][2]) IN
            IF r.ok THEN VisitMap(T, m, i + 1, Append(acc, <<k, r.v>>))
            ELSE r

\* Vec<E>::deserialize, element by element
VecElements(E, a, i, acc) ==
  IF i > Len(a) THEN Ok(acc)
  ELSE LET r == Deserialize(E, a[i]) IN
       IF r.ok THEN VecElements(E, a, i + 1, VecPush(acc, r.v)) ELSE r

\* (mutant) a payload struct is read from an array only
DeserializeStructSeqOnly(T, j) ==
  IF ContentOf(j) = "Seq" THEN VisitSeq(T, j.a, 1, <<>>)
  ELSE IF ContentOf(j) = "Map" /\ (\E i \in 1..Len(Tempest) : Tempest[i] = T)
    THEN VisitMap(T, j.m, 1, <<>>)
  ELSE DataErr("invalid_type", "struct")

\* ContentDeserializer::deserialize_struct: the derived visitor is given
\* an array through visit_seq and an object through visit_map
DeserializeStruct(T, j) ==
  IF ContentOf(j) = "Seq" THEN VisitSeq(T, j.a, 1, <<>>)
  ELSE IF ContentOf(j) = "Map" THEN VisitMap(T, j.m, 1, <<>>)
  ELSE DataErr("invalid_type", "struct")

\* T::deserialize(ContentDeserializer(j))
Deserialize(T, j) ==
  CASE T = "String" -> DeserializeString(j)
    [] T \in {"u8", "u16", "u32", "u64", "i32"} -> DeserializeInt(T, j)
    [] T = "f32" -> DeserializeF32(j)
    [] T = "Option<u32>" -> DeserializeOption(j)
    [] IsVec(T) ->
         IF ContentOf(j) = "Seq" THEN VecElements(ElemType(T), j.a, 1, <<>>)
         ELSE DataErr("invalid_type", "a sequence")
    [] T \in StructNames -> DeserializeStruct(T, j)

IsVariantTag(s) == \E i \in 1..Len(Tempest) : SnakeCase(Tempest[i]) = s
VariantOf(s) == Tempest[CHOOSE i \in 1..Len(Tempest) : SnakeCase(Tempest[i]) = s]

\* (mutant) a tag outside the eight falls back to the first variant
DeserializeTagDefault(j) ==
  IF ContentOf(j) # "String" THEN DataErr("invalid_type", "variant identifier")
  ELSE IF IsVariantTag(j.s) THEN Ok(VariantOf(j.s))
  ELSE Ok(Tempest[1])

\* the variant identifier: serde_json reads it with deserialize_str, so only
\* a string is taken, and only one of the eight tags
DeserializeTag(j) ==
  IF ContentOf(j) # "String" THEN DataErr("invalid_type", "variant identifier")
  ELSE IF IsVariantTag(j.s) THEN Ok(VariantOf(j.s))
  ELSE DataErr("unknown_variant", j.s)

RECURSIVE TaggedVisitMap(_, _, _, _)
\* TaggedContentVisitor::visit_map: the member "type" is read as the tag,
\* every other member is buffered
TaggedVisitMap(m, i, tag, content) ==
  IF i > Len(m)
    THEN IF tag = "" THEN DataErr("missing_field", "type")
         ELSE Ok([tag |-> tag, content |-> JObj(content)])
  ELSE IF m[i][1] = "type"
    THEN IF tag # "" THEN DataErr("duplicate_field", "type")
         ELSE LET r == DeserializeTag(m[i][2]) IN
              IF r.ok THEN TaggedVisitMap(m, i + 1, r.v, content) ELSE r
  ELSE TaggedVisitMap(m, i + 1, tag, Append(content, m[i]))

\* TaggedContentVisitor::visit_seq: the first element is the tag, the rest
\* is buffered as a sequence
TaggedVisitSeq(a) ==
  IF Len(a) = 0 THEN DataErr("missing_field", "type")
  ELSE LET r == DeserializeTag(a[1]) IN
       IF r.ok THEN Ok([tag |-> r.v, content |-> JArr(Tail(a))]) ELSE r

\* deserialize_any(TaggedContentVisitor) on the packet
TaggedContent(j) ==
  IF ContentOf(j) = "Map" THEN TaggedVisitMap(j.m, 1, "", <<>>)
  ELSE IF ContentOf(j) = "Seq" THEN TaggedVisitSeq(j.a)
  ELSE DataErr("invalid_type", "internally tagged enum Tempest")

\* serde_json::from_str::<Tempest>(text)
from_str(text) ==
  IF text.t = "bad" THEN Err("Syntax", "syntax", "")
  ELSE IF text.t = "eof" THEN Err("Eof", "syntax", "")
  ELSE LET tc == TaggedContent(text) IN
       IF ~tc.ok THEN tc
       ELSE LET s == Deserialize(tc.v.tag, tc.v.content) IN
            IF s.ok THEN Ok([variant |-> tc.v.tag, value |-> s.v]) ELSE s

---------------------------------------------------------------------------
(* Encoding: the derived Serialize, written by serde_json::to_string.      *)

\* f32: serde_json writes a finite f32 as its shortest decimal, which reads
\* back as the same f32, and writes an infinite or NaN f32 as null
SerializeF32(x) ==
  IF x.cls = "fin" THEN JFloat(Num(x.neg, x.hi, x.d, x.f)) ELSE JNull

\* Option<u32>: None is written as null
SerializeOption(x) ==
  IF x.some THEN JInt(x.val) ELSE JNull

RECURSIVE Serialize(_, _)
\* derived Serialize of struct T: serialize_struct, one member per field
\* in declaration order, named by the field
SerializeStruct(T, x) ==
  [i \in 1..Len(Fields(T)) |->
     <<Fields(T)[i][1], Serialize(Fields(T)[i][2], x[Fields(T)[i][1]])>>]

Serialize(T, x) ==
  CASE T = "String" -> JStr(x)
    [] T \in {"u8", "u16", "u32", "u64", "i32"} -> JInt(x)
    [] T = "f32" -> SerializeF32(x)
    [] T = "Option<u32>" -> SerializeOption(x)
    [] IsVec(T) -> JArr([i \in 1..Len(x) |-> Serialize(ElemType(T), x[i])])
    [] T \in StructNames -> JObj(SerializeStruct(T, x))

\* serde_json::to_string(&record): the internally tagged enum writes the
\* member "type" first and then the members of the variant's struct
to_string(r) ==
  JObj(<< <<"type", JStr(SnakeCase(r.variant))>> >>
       \o SerializeStruct(r.variant, r.value))

---------------------------------------------------------------------------
(* The packets decoded.  A packet is described by `input`: the variant it  *)
(* is shaped after, the sizes and values of a well-formed packet of that   *)
(* variant (seed, nobs, rain, aux), what is done to its "type" member      *)
(* (tag) and at most one change to the rest of it (body).                  *)

NoChange == [kind |-> "none", field |-> "", slot |-> 0, val |-> JNull]
Change(kind, field, slot, val) ==
  [kind |-> kind, field |-> field, slot |-> slot, val |-> val]

Small(i) == N(i % (MaxSmall + 1))

\* the values put in place of a well-formed one
OtherValues ==
  { JNull, JBool(TRUE), JStr("35"), JStr("v1.2"), JArr(<<>>), JObj(<<>>),
    JInt(N(0)), JInt(Neg(N(1))),
    JInt(Pow2(8, -1)), JInt(Pow2(8, 0)),
    JInt(Pow2(16, -1)), JInt(Pow2(16, 0)),
    JInt(Pow2(31, -1)), JInt(Pow2(31, 0)),
    JInt(Neg(Pow2(31, 0))), JInt(Neg(Pow2(31, 1))),
    JInt(Pow2(32, -1)), JInt(Pow2(32, 0)),
    JInt(Pow2(64, -1)), JInt(Pow2(64, 0)), JInt(Neg(Pow2(63, 0))),
    JFloat(Num(FALSE, 0, 1, 50)), JFloat(Pow2(128, 0)) }

\* the field of a variant that holds positional arrays, and their struct
PosField(variant) ==
  CASE variant \in {"EvtPrecip", "EvtStrike"} -> "evt"
    [] variant = "RapidWind" -> "ob"
    [] variant \in {"ObsAir", "ObsSky", "ObsSt"} -> "obs"
    [] variant = "HubStatus" -> "radio_stats"
    [] variant = "DeviceStatus" -> ""

PosStruct(variant) ==
  CASE variant = "EvtPrecip" -> "EvtPrecipEvt"
    [] variant = "EvtStrike" -> "EvtStrikeEvt"
    [] variant = "RapidWind" -> "RapidWindOb"
    [] variant = "ObsAir" -> "ObsAirObs"
    [] variant = "ObsSky" -> "ObsSkyObs"
    [] variant = "ObsSt" -> "ObsStObs"
    [] variant = "HubStatus" -> "RadioStats"
    [] variant = "DeviceStatus" -> ""

Batched(variant) == variant \in {"ObsAir", "ObsSky", "ObsSt"}

\* the well-formed value of a scalar field or slot, the i-th of its struct
ScalarText(T, name, i, in) ==
  CASE T = "String" ->
         JStr(CASE name = "serial_number" -> "SK-00008453"
                [] name = "hub_sn" -> "HB-00000001"
                [] name = "firmware_revision" -> "35"
                [] name = "reset_flags" -> "BOR,PIN,POR")
    [] T = "i32" -> JInt(Neg(Small(i + in.seed)))
    [] T = "f32" -> JFloat(Num(FALSE, 0, (i + in.seed) % (MaxSmall + 1), 30))
    [] T = "Option<u32>" -> IF in.rain THEN JInt(Small(i + in.seed)) ELSE JNull
    [] OTHER -> JInt(Small(i + in.seed))

Reverse(a) == [i \in 1..Len(a) |-> a[Len(a) + 1 - i]]

RemoveAt(a, k) == [i \in 1..(Len(a) - 1) |-> IF i < k THEN a[i] ELSE a[i + 1]]

\* one positional array of struct T, with the change c made to it
PositionalText(T, in, c) ==
  LET a == [i \in 1..Len(Fields(T)) |->
              ScalarText(Fields(T)[i][2], Fields(T)[i][1], i, in)]
  IN CASE c.kind = "slot" -> JArr([a EXCEPT ![c.slot] = c.val])
       [] c.kind = "short" -> JArr(SubSeq(a, 1, Len(a) - 1))
       [] c.kind = "long" -> JArr(Append(a, c.val))
       [] c.kind = "omit" -> JArr(RemoveAt(a, c.slot))
       [] c.kind = "object" ->
            JObj([i \in 1..Len(a) |-> <<Fields(T)[i][1], a[i]>>])
       [] c.kind = "object_rev" ->
            JObj(Reverse([i \in 1..Len(a) |-> <<Fields(T)[i][1], a[i]>>]))
       [] OTHER -> JArr(a)

\* the value of the top-level field `name` of the packet
FieldText(T, name, i, in) ==
  IF in.body.kind = "set" /\ in.body.field = name THEN in.body.val
  ELSE IF T \in StructNames THEN PositionalText(T, in, in.body)
  ELSE IF T = "Vec<u32>" THEN
    JArr([e \in 1..in.aux |->
            IF in.body.kind = "aux" /\ in.body.field = name /\ in.body.slot = e
              THEN in.body.val ELSE JInt(Small(e + in.seed))])
  ELSE IF IsVec(T) THEN
    JArr([e \in 1..in.nobs |->
            PositionalText(ElemType(T), [in EXCEPT !.seed = in.seed + e - 1],
                           IF e = 1 THEN in.body ELSE NoChange)])
  ELSE ScalarText(T, name, i, in)

TagMembers(in) ==
  CASE in.tag = "keep" -> << <<"type", JStr(SnakeCase(in.variant))>> >>
    [] in.tag = "unknown" -> << <<"type", JStr("evt_unknown")>> >>
    [] in.tag = "rust_name" -> << <<"type", JStr(in.variant)>> >>
    [] in.tag = "number" -> << <<"type", JInt(N(0))>> >>
    [] in.tag = "null" -> << <<"type", JNull>> >>
    [] in.tag = "twice" -> << <<"type", JStr(SnakeCase(in.variant))>> >>
    [] in.tag = "missing" -> << >>

\* the members of the packet: the first field, the tag, the other fields
Members(in) ==
  LET T == in.variant
      all == [i \in 1..Len(Fields(T)) |->
                <<Fields(T)[i][1], FieldText(Fields(T)[i][2], Fields(T)[i][1], i, in)>>]
      Kept(m) == ~(in.body.kind = "del" /\ in.body.field = m[1])
      kept == SelectSeq(all, Kept)
      again == IF in.body.kind = "dup"
                 THEN << all[FieldIndex(T, in.body.field)] >> ELSE << >>
      extra == IF in.body.kind = "extra" THEN << <<"foo", in.body.val>> >> ELSE << >>
      tag2 == IF in.tag = "twice"
                 THEN << <<"type", JStr(SnakeCase(in.variant))>> >> ELSE << >>
  IN SubSeq(kept, 1, 1) \o TagMembers(in) \o SubSeq(kept, 2, Len(kept))
       \o again \o extra \o tag2

\* the text of the packet
Text(in) ==
  CASE in.body.kind = "bad" -> JBad
    [] in.body.kind = "eof" -> JEof
    [] in.body.kind = "scalar" -> in.body.val
    [] in.body.kind = "array" ->
         JArr(<<JStr(SnakeCase(in.variant))>>
              \o [i \in 1..Len(Fields(in.variant)) |-> Members([in EXCEPT !.body = NoChange, !.tag = "missing"])[i][2]])
    [] OTHER -> JObj(Members(in))

Variants == { Tempest[i] : i \in 1..Len(Tempest) }
Tags == { "keep", "unknown", "rust_name", "number", "null", "twice", "missing" }

\* the changes that apply to a packet of the variant
Changes(variant, nobs, aux) ==
  LET T == variant
      P == PosStruct(variant)
      hasPos == P # "" /\ (Batched(variant) => nobs >= 1)
  IN {NoChange}
     \cup { Change("set", f, 0, x) : f \in FieldNames(T), x \in OtherValues }
     \cup { Change(k, f, 0, JNull) : k \in {"del", "dup"}, f \in FieldNames(T) }
     \cup { Change("extra", "", 0, x) : x \in {JNull, JInt(N(1))} }
     \cup { Change(k, "", 0, JNull) : k \in {"bad", "eof", "array"} }
     \cup { Change("scalar", "", 0, x) : x \in {JNull, JInt(N(1)), JStr("evt_precip")} }
     \cup (IF hasPos
             THEN { Change("slot", "", i, x) : i \in 1..Len(Fields(P)), x \in OtherValues }
                  \cup { Change("omit", "", i, JNull) : i \in 1..Len(Fields(P)) }
                  \cup { Change("short", "", 0, JNull) }
                  \cup { Change("long", "", 0, x) : x \in {JNull, JInt(N(0))} }
                  \cup { Change(k, "", 0, JNull) : k \in {"object", "object_rev"} }
             ELSE {})
     \cup (IF variant = "HubStatus"
             THEN { Change("aux", f, e, x) :
                      f \in {"fs", "mqtt_stats"}, e \in 1..aux, x \in OtherValues }
             ELSE {})

Input(v, sh, t, c) ==
  [variant |-> v, seed |-> sh.seed, nobs |-> sh.nobs, rain |-> sh.rain,
   aux |-> sh.aux, tag |-> t, body |-> c]

\* the sizes and values of the well-formed packets of a variant; a size
\* only varies where the variant has it
Shapes(v) ==
  { [seed |-> s, nobs |-> n, rain |-> r, aux |-> a] :
      s \in 0..1,
      n \in IF Batched(v) THEN 0..MaxObs ELSE {1},
      r \in IF v = "ObsSky" THEN BOOLEAN ELSE {FALSE},
      a \in IF v = "HubStatus" THEN 0..MaxAux ELSE {0} }

\* the shapes a change to the body is made to
PlainShapes(v) ==
  { sh \in Shapes(v) : sh.seed = 0 /\ sh.nobs = 1
                       /\ sh.aux = (IF v = "HubStatus" THEN 1 ELSE 0) }

\* the packets: every well-formed packet within the bounds under every
\* tag, and every single change to the body under a kept and an unknown tag
Inputs ==
  UNION { { Input(v, sh, t, NoChange) : sh \in Shapes(v), t \in Tags }
          \cup
          UNION { { Input(v, sh, t, c) :
                      t \in {"keep", "unknown"}, c \in Changes(v, sh.nobs, sh.aux) }
                  : sh \in PlainShapes(v) }
          : v \in Variants }

---------------------------------------------------------------------------
(* The run of one packet: it is decoded; a record is encoded; the text     *)
(* written is decoded again.                                               *)

Nil == Err("none", "none", "")
NoText == [t |-> "none"]

Init ==
  /\ input \in Inputs
  /\ wire = Text(input)
  /\ pc = "text"
  /\ rec = Nil
  /\ out = NoText
  /\ rec2 = Nil

\* let rec: Tempest = serde_json::from_str(&buf)
Decode ==
  /\ pc = "text"
  /\ rec' = from_str(wire)
  /\ pc' = IF rec'.ok THEN "record" ELSE "failed"
  /\ UNCHANGED <<input, wire, out, rec2>>

\* serde_json::to_string(&rec)
Encode ==
  /\ pc = "record"
  /\ out' = to_string(rec.v)
  /\ pc' = "encoded"
  /\ UNCHANGED <<input, wire, rec, rec2>>

\* serde_json::from_str of the text written
DecodeAgain ==
  /\ pc = "encoded"
  /\ rec2' = from_str(out)
  /\ pc' = "done"
  /\ UNCHANGED <<input, wire, rec, out>>

Next == Decode \/ Encode \/ DecodeAgain

Spec == Init /\ [][Next]_vars

---------------------------------------------------------------------------
(* What the claims speak of, read off the text and the record.             *)

Decoded == pc \in {"record", "encoded", "done"}
Failed == pc = "failed"

\* the packet is an object and `name` is a member of it
HasMember(j, name) == j.t = "obj" /\ \E i \in 1..Len(j.m) : j.m[i][1] = name
\* the value of the first member `name` of the object j
Member(j, name) ==
  j.m[CHOOSE i \in 1..Len(j.m) :
        j.m[i][1] = name /\ \A k \in 1..(i - 1) : j.m[k][1] # name][2]

\* a well-formed packet: nothing done to the tag or the body
WellFormed == input.tag = "keep" /\ input.body.kind = "none"

\* the error kinds of the specification, as far as the error of the code
\* tells them apart: by the constructor that built its message
KindOf(e) ==
  CASE e.cat \in {"Syntax", "Eof"} -> "MalformedInput"
    [] e.code = "unknown_variant" -> "UnknownVariant"
    [] e.code = "missing_field" /\ e.arg = "type" -> "MissingDiscriminator"
    [] e.code = "missing_field" /\ e.arg # "type" -> "MissingField"
    [] e.code \in {"invalid_type", "invalid_value"} -> "TypeMismatch"
    [] e.code = "invalid_length" -> "ArityMismatch"
    [] OTHER -> e.code

---------------------------------------------------------------------------
\* C1: decoding the text that encode wrote for a record succeeds and
\* yields a record equal to it
C1_RoundTrip ==
  pc = "done" => rec2.ok /\ rec2.v = rec.v

\* the tag of each variant and the slot names of its positional array in
\* wire order, as the packet format gives them (the fixtures of the tests)
TagOf(variant) ==
  CASE variant = "EvtPrecip" -> "evt_precip"
    [] variant = "EvtStrike" -> "evt_strike"
    [] variant = "RapidWind" -> "rapid_wind"
    [] variant = "ObsAir" -> "obs_air"
    [] variant = "ObsSky" -> "obs_sky"
    [] variant = "ObsSt" -> "obs_st"
    [] variant = "DeviceStatus" -> "device_status"
    [] variant = "HubStatus" -> "hub_status"

EightTags == { "evt_precip", "evt_strike", "rapid_wind", "obs_air", "obs_sky",
               "obs_st", "device_status", "hub_status" }

SlotNames(variant) ==
  CASE variant = "EvtPrecip" -> <<"epoch">>
    [] variant = "EvtStrike" -> <<"epoch", "distance", "energy">>
    [] variant = "RapidWind" -> <<"epoch", "wind_speed", "wind_direction">>
    [] variant = "ObsAir" ->
         <<"epoch", "station_pressure", "air_temperature", "relative_humidity",
           "lightning_strike_count", "lightning_strike_avg_distance",
           "battery", "report_interval">>
    [] variant = "ObsSky" ->
         <<"epoch", "illuminance", "uv", "rain_minute", "wind_lull_min3",
           "wind_avg", "wind_gust_max3", "wind_direction", "battery",
           "report_interval", "solar_radiation", "rain_day",
           "precipitation_type", "wind_sample_interval">>
    [] variant = "ObsSt" ->
         <<"epoch", "wind_lull_min3", "wind_avg", "wind_gust_max3",
           "wind_direction", "wind_sample_interval", "station_pressure",
           "air_temperature", "relative_humidity", "illuminance", "uv",
           "solar_radiation", "rain_minute", "precipitation_type",
           "lightning_strike_dist", "lightning_strike_count", "battery",
           "report_interval">>
    [] variant = "HubStatus" ->
         <<"version", "reboots", "i2c_errors", "radio_status", "network_id">>
    [] variant = "DeviceStatus" -> << >>

\* the name of the member that holds the positional arrays
PayloadName(variant) ==
  CASE variant \in {"EvtPrecip", "EvtStrike"} -> "evt"
    [] variant = "RapidWind" -> "ob"
    [] variant \in {"ObsAir", "ObsSky", "ObsSt"} -> "obs"
    [] variant = "HubStatus" -> "radio_stats"
    [] variant = "DeviceStatus" -> ""

\* the field value x is the wire value j
ValueIs(name, x, j) ==
  CASE j.t = "null" -> x = None
    [] j.t = "str" -> x = j.s
    [] j.t = "int" -> IF name = "rain_day" THEN x = Some(j.n) ELSE x = j.n
    [] j.t = "float" ->
         x = [cls |-> "fin", neg |-> j.n.neg, hi |-> j.n.hi, d |-> j.n.d, f |-> j.n.f]
    [] OTHER -> FALSE

\* the struct x holds slot i of the array j in the i-th field of the variant
ArrayIs(variant, x, j) ==
  /\ j.t = "arr"
  /\ Len(j.a) = Len(SlotNames(variant))
  /\ DOMAIN x = { SlotNames(variant)[i] : i \in 1..Len(SlotNames(variant)) }
  /\ \A i \in 1..Len(j.a) :
       ValueIs(SlotNames(variant)[i], x[SlotNames(variant)[i]], j.a[i])

\* the field x of the record is the member value j of the packet
MemberIs(variant, name, x, j) ==
  IF name = PayloadName(variant) THEN
    IF variant \in {"ObsAir", "ObsSky", "ObsSt"}
      THEN /\ j.t = "arr"
           /\ Len(x) = Len(j.a)
           /\ \A e \in 1..Len(j.a) : ArrayIs(variant, x[e], j.a[e])
      ELSE ArrayIs(variant, x, j)
  ELSE IF name \in {"fs", "mqtt_stats"} THEN
    /\ j.t = "arr"
    /\ Len(x) = Len(j.a)
    /\ \A e \in 1..Len(j.a) : ValueIs(name, x[e], j.a[e])
  ELSE ValueIs(name, x, j)

\* the record r is the variant named by the "type" member of the packet j
\* and holds, field by field, the other members of j
RecordIs(r, j) ==
  /\ j.t = "obj"
  /\ Member(j, "type") = JStr(TagOf(r.variant))
  /\ DOMAIN r.value = { j.m[i][1] : i \in 1..Len(j.m) } \ {"type"}
  /\ \A i \in 1..Len(j.m) :
       j.m[i][1] # "type" =>
         MemberIs(r.variant, j.m[i][1], r.value[j.m[i][1]], j.m[i][2])

\* C2: a well-formed packet of each of the eight tags decodes to the
\* variant of that tag, every named field holding the member of that name
\* and the i-th field of the positional schema holding slot i of the array
C2_DecodeFields ==
  (pc # "text" /\ WellFormed) =>
    /\ rec.ok
    /\ rec.v.variant = input.variant
    /\ RecordIs(rec.v, wire)

C2_Witness ==
  /\ pc = "record" /\ WellFormed
  /\ input.variant = "ObsSt" /\ input.nobs = 2
  /\ rec.ok /\ Len(rec.v.value.obs) = 2

\* the unknown tags of the model
IsUnknownTag(j) ==
  /\ HasMember(j, "type")
  /\ Member(j, "type").t = "str"
  /\ Member(j, "type").s \notin EightTags

\* C3: a packet whose "type" is a string outside the eight tags fails with
\* the unknown-variant error and yields no record, whatever its other
\* members are
C3_UnknownTagFails ==
  (pc # "text" /\ IsUnknownTag(wire)) =>
    /\ pc = "failed"
    /\ ~rec.ok
    /\ KindOf(rec.err) = "UnknownVariant"

C3_Witness ==
  /\ pc = "failed" /\ IsUnknownTag(wire)
  /\ input.body.kind = "none" /\ input.variant = "EvtPrecip"
  /\ rec.err.code = "unknown_variant"

\* the positional array of the packet was given one element too few
\* (its last element removed, or one of its elements left out) or one too
\* many (an element appended)
OneShort == input.tag = "keep" /\ input.body.kind \in {"short", "omit"}
LastDropped == input.tag = "keep" /\ input.body.kind = "short"
OneLong == input.tag = "keep" /\ input.body.kind = "long"

Encoded == pc \in {"encoded", "done"}

\* C5: encode writes the "type" member of the variant and every positional
\* field as an array of the slot values in schema order, an absent
\* rain_day as null at its position
C5_EncodeWritesArrays ==
  Encoded =>
    /\ HasMember(out, "type")
    /\ Member(out, "type") = JStr(TagOf(rec.v.variant))
    /\ PayloadName(rec.v.variant) # "" =>
         /\ HasMember(out, PayloadName(rec.v.variant))
         /\ MemberIs(rec.v.variant, PayloadName(rec.v.variant),
                     rec.v.value[PayloadName(rec.v.variant)],
                     Member(out, PayloadName(rec.v.variant)))

\* the position of rain_day in the Sky array (index 11, counted from 0)
RainDaySlot == 12

SlotChanged == input.tag = "keep" /\ input.body.kind = "slot"
IsRainDay == input.variant = "ObsSky" /\ input.body.slot = RainDaySlot

\* C6: in the Sky array null at the rain_day slot decodes to None (never to
\* a number), a number v there decodes to Some(v), an array that leaves
\* the slot out fails; null in any other slot of a positional array fails
C6_Nullability ==
  /\ (Decoded /\ WellFormed /\ input.variant = "ObsSky") =>
       \A e \in 1..Len(rec.v.value.obs) :
         LET j == Member(wire, "obs").a[e].a[RainDaySlot]
             x == rec.v.value.obs[e].rain_day
         IN IF j.t = "null" THEN x = None /\ ~x.some
            ELSE x = Some(j.n)
  /\ (pc # "text" /\ SlotChanged /\ IsRainDay /\ input.body.val = JNull) =>
       rec.ok /\ rec.v.value.obs[1].rain_day = None
  /\ (pc # "text" /\ SlotChanged /\ IsRainDay
        /\ input.body.val \in {JInt(N(0)), JInt(Pow2(8, 0)), JInt(Pow2(32, -1))}) =>
       rec.ok /\ rec.v.value.obs[1].rain_day = Some(input.body.val.n)
  /\ (pc # "text" /\ input.tag = "keep" /\ input.body.kind = "omit" /\ IsRainDay) =>
       pc = "failed"
  /\ (pc # "text" /\ SlotChanged /\ ~IsRainDay /\ input.body.val = JNull) =>
       pc = "failed" /\ KindOf(rec.err) = "TypeMismatch"

C6_Witness ==
  /\ pc = "record" /\ WellFormed /\ input.variant = "ObsSky"
  /\ ~input.rain /\ input.nobs = 2
  /\ Member(wire, "obs").a[2].a[RainDaySlot] = JNull
  /\ rec.v.value.obs[2].rain_day = None

FirmwareAsText ==
  /\ input.tag = "keep" /\ input.body.kind = "set"
  /\ input.body.field = "firmware_revision" /\ input.body.val.t = "str"

\* C7: firmware_revision given as a string decodes unchanged in hub_status
\* and fails with TypeMismatch in obs_air, obs_sky, obs_st and device_status
C7_FirmwareAsymmetry ==
  /\ (pc # "text" /\ FirmwareAsText /\ input.variant = "HubStatus") =>
       rec.ok /\ rec.v.value.firmware_revision = input.body.val.s
  /\ (pc # "text" /\ FirmwareAsText /\ input.variant # "HubStatus") =>
       pc = "failed" /\ rec.err.code = "invalid_type"
       /\ KindOf(rec.err) = "TypeMismatch"

C7_Witness ==
  /\ pc = "failed" /\ FirmwareAsText /\ input.variant = "DeviceStatus"
  /\ input.body.val = JStr("35")
  /\ rec.err.code = "invalid_type"

\* C8: each failure mode is reported as its own kind: malformed text as
\* MalformedInput, a missing or non-string "type" as MissingDiscriminator,
\* an unknown "type" as UnknownVariant, an absent field as MissingField, a
\* field of the wrong type as TypeMismatch, an array of the wrong length as
\* ArityMismatch
C8_SixErrorKinds ==
  pc = "failed" =>
    /\ input.body.kind \in {"bad", "eof"} => KindOf(rec.err) = "MalformedInput"
    /\ (input.body.kind = "none" /\ input.tag \in {"missing", "number", "null"}) =>
         KindOf(rec.err) = "MissingDiscriminator"
    /\ (input.body.kind = "none" /\ input.tag \in {"unknown", "rust_name"}) =>
         KindOf(rec.err) = "UnknownVariant"
    /\ (input.tag = "keep" /\ input.body.kind = "del") =>
         KindOf(rec.err) = "MissingField"
    /\ (input.tag = "keep" /\ input.body.kind = "set") =>
         KindOf(rec.err) = "TypeMismatch"
    /\ (input.tag = "keep" /\ input.body.kind \in {"short", "long"}) =>
         KindOf(rec.err) = "ArityMismatch"

\* the integer type the changed field, slot or element is declared with
ChangedType ==
  LET T == CASE input.body.kind = "set" -> FieldType(input.variant, input.body.field)
             [] input.body.kind = "slot" ->
                  Fields(PosStruct(input.variant))[input.body.slot][2]
             [] input.body.kind = "aux" -> "u32"
             [] OTHER -> ""
  IN IF T = "Option<u32>" THEN "u32" ELSE T

\* the value the record holds where the change was made
ChangedValue ==
  LET x == CASE input.body.kind = "set" -> rec.v.value[input.body.field]
             [] input.body.kind = "aux" -> rec.v.value[input.body.field][input.body.slot]
             [] input.body.kind = "slot" ->
                  LET p == rec.v.value[PayloadName(input.variant)]
                      st == IF Batched(input.variant) THEN p[1] ELSE p
                  IN st[SlotNames(input.variant)[input.body.slot]]
  IN IF input.body.kind = "slot" /\ IsRainDay THEN x.val ELSE x

\* the integers of the model inside the range of each width
InRange(T) ==
  LET u8 == { N(i) : i \in 0..MaxSmall } \cup { Pow2(8, -1) }
      u16 == u8 \cup { Pow2(8, 0), Pow2(16, -1) }
      u31 == u16 \cup { Pow2(16, 0), Pow2(31, -1) }
      u32 == u31 \cup { Pow2(31, 0), Pow2(32, -1) }
      u64 == u32 \cup { Pow2(32, 0), Pow2(64, -1) }
  IN CASE T = "u8" -> u8
       [] T = "u16" -> u16
       [] T = "u32" -> u32
       [] T = "u64" -> u64
       [] T = "i32" -> u31 \cup { Neg(N(1)), Neg(Pow2(31, 0)) }

IntegerGiven ==
  /\ input.tag = "keep" /\ input.body.kind \in {"set", "slot", "aux"}
  /\ input.body.val.t = "int"
  /\ ChangedType \in {"u8", "u16", "u32", "u64", "i32"}

\* C9: an integer outside the range of the declared width of its field or
\* slot makes decode fail with TypeMismatch, and is never stored (wrapped
\* or clamped); an integer inside the range is stored as it is
C9_IntegerRange ==
  (pc # "text" /\ IntegerGiven) =>
    IF input.body.val.n \in InRange(ChangedType)
      THEN rec.ok /\ ChangedValue = input.body.val.n
      ELSE pc = "failed" /\ KindOf(rec.err) = "TypeMismatch"

C9_Witness ==
  /\ pc = "failed" /\ IntegerGiven /\ input.variant = "ObsAir"
  /\ input.body.field = "firmware_revision" /\ input.body.val = JInt(Pow2(8, 0))
  /\ rec.err.code = "invalid_value"

AuxGiven == input.tag = "keep" /\ input.body.kind = "aux" /\ input.body.val.t = "int"

\* C10 as stated: fs and mqtt_stats are accepted with any integer elements
C10_AnyIntegerAccepted ==
  (pc # "text" /\ AuxGiven) => rec.ok

\* C10, amended: fs and mqtt_stats are accepted with any length (including
\* empty) and any elements that are integers of 0..2^32-1, kept in order,
\* and come back unchanged from encode and decode; an element outside
\* 0..2^32-1 makes decode fail
C10_AuxArrays ==
  /\ (pc # "text" /\ WellFormed /\ input.variant = "HubStatus") =>
       /\ rec.ok
       /\ \A f \in {"fs", "mqtt_stats"} :
            /\ Len(rec.v.value[f]) = Len(Member(wire, f).a)
            /\ \A e \in 1..Len(Member(wire, f).a) :
                 rec.v.value[f][e] = Member(wire, f).a[e].n
  /\ (pc # "text" /\ AuxGiven) =>
       IF input.body.val.n \in InRange("u32")
         THEN rec.ok /\ ChangedValue = input.body.val.n
         ELSE pc = "failed"
  /\ (pc = "done" /\ input.variant = "HubStatus") =>
       /\ rec2.ok
       /\ rec2.v.value.fs = rec.v.value.fs
       /\ rec2.v.value.mqtt_stats = rec.v.value.mqtt_stats

C10_Witness ==
  /\ pc = "done" /\ WellFormed /\ input.variant = "HubStatus" /\ input.aux = 2
  /\ Len(rec.v.value.fs) = 2 /\ rec.v.value.fs[1] # rec.v.value.fs[2]
  /\ rec2.ok

ObjectGiven ==
  input.tag = "keep" /\ input.body.kind \in {"object", "object_rev"}

\* the packet of the same values with its payload as a positional array
ArrayShaped == Text([input EXCEPT !.body = NoChange])

\* the slot values of the record's payload, in schema order
SlotValues(variant, r) ==
  LET p == r.value[PayloadName(variant)]
      st == IF Batched(variant) THEN p[1] ELSE p
  IN [i \in 1..Len(SlotNames(variant)) |-> st[SlotNames(variant)[i]]]

\* C11: a positional payload (evt, ob, an entry of obs, radio_stats) given
\* as an object keyed by the slot names decodes, and to the record the
\* positional array of the same slot values decodes to
C11_ObjectShapeAccepted ==
  (pc # "text" /\ ObjectGiven) =>
    /\ pc # "failed" /\ rec.ok
    /\ from_str(ArrayShaped).ok
    /\ rec.v = from_str(ArrayShaped).v
    /\ LET j == Member(wire, PayloadName(input.variant))
           o == IF Batched(input.variant) THEN j.a[1] ELSE j
       IN /\ o.t = "obj"
          /\ \A i \in 1..Len(SlotNames(input.variant)) :
               /\ HasMember(o, SlotNames(input.variant)[i])
               /\ ValueIs(SlotNames(input.variant)[i],
                          SlotValues(input.variant, rec.v)[i],
                          Member(o, SlotNames(input.variant)[i]))

C11_Witness ==
  /\ pc = "record" /\ ObjectGiven /\ input.variant = "EvtStrike"
  /\ input.body.kind = "object_rev"
  /\ Member(wire, "evt").t = "obj"
  /\ Member(ArrayShaped, "evt").t = "arr"
  /\ rec.ok /\ rec.v.value.evt.distance = Member(wire, "evt").m[2][2].n

=============================================================================
